---- MODULE Spec2Model ----
(***************************************************************************)
(* Change-detection and notification core of the Truth Social tracker bot. *)
(*                                                                         *)
(* The repository carries two near-duplicate variants of the bot,          *)
(* src/main.py and src/main_new.py.  The variable `variant` fixes which of *)
(* the two is running; every operator that differs between the files takes *)
(* the variant as a parameter.                                             *)
(*                                                                         *)
(* Coroutines interleave at their await points only, so every action below *)
(* is the code between two awaits whose order matters: the poll cycle's    *)
(* snapshot, its get_user_data call, each channel.send, the UPDATE, and    *)
(* the commands' SELECT / lookup / INSERT / DELETE.  A get_user_data call  *)
(* changes nothing but its own result, so Spec takes it in one step;       *)
(* SpecClient follows one call transport by transport.                     *)
(***************************************************************************)
EXTENDS Integers, Sequences, FiniteSets, TLC

\* ---------------------------------------------------------------- bounds
\* posts the upstream accounts publish at most, all accounts together
MaxPosts == 4
\* rows inserted into tracked_users at most (successful track commands)
MaxTracks == 1
\* the same where a username is tracked again after an untrack
MaxRetracks == 2
\* runs of check_for_new_posts started at most
MaxCycles == 2
\* the bounds where two rows are in the table together, or the replies of
\* the commands are kept
PairTracks == 2
FewCycles == 1
FewPosts == 3

\* ------------------------------------------------------- program constants
\* "maxPosts": 20 in the run input of both transports
maxPosts == 20

Variants == {"main", "main_new"}

\* command coroutines that may be in flight at once (two chat users)
Procs == {1, 2}

\* ------------------------------------------------------------- usernames
\* A username is a sequence of characters.
LowerChar(c) ==
    CASE c = "A" -> "a"
      [] c = "B" -> "b"
      [] OTHER -> c

\* a username kept as it was typed
Lower_asTyped(s) == s

\* str.lower()
Lower(s) == [k \in 1..Len(s) |-> LowerChar(s[k])]

RECURSIVE LStrip(_)
LStrip(s) == IF s # <<>> /\ Head(s) = " " THEN LStrip(Tail(s)) ELSE s

RECURSIVE RStrip(_)
RStrip(s) ==
    IF s # <<>> /\ s[Len(s)] = " " THEN RStrip(SubSeq(s, 1, Len(s) - 1)) ELSE s

\* str.strip()
Strip(s) == LStrip(RStrip(s))

\* c.isalnum()
IsAlnum(c) == c \in {"a", "b", "A", "B", "1"}

\* a command that accepts every username
ValidUsername_any(s) == TRUE

\* all(c.isalnum() or c == '_' for c in username)
ValidUsername(s) == \A k \in 1..Len(s) : IsAlnum(s[k]) \/ s[k] = "_"

\* the arguments the chat users type
RawNames == { <<"A", "1">>, <<"a", "1">>, <<"b", "_">>, <<"b", "!">> }

\* the accounts that exist upstream
Accounts == { <<"a", "1">>, <<"b", "_">> }

\* ------------------------------------------------------------------ posts
\* A post id is opaque to the code apart from equality and the 'mock_'
\* prefix test; the model writes it <<prefix, n>>, n being the position of
\* the post in the account's history (greater is more recent).
None == <<"None", 0>>
RealId(n) == <<"", n>>
MockId == <<"mock_", 1>>

\* the empty string, and bool(last_post_id)
EmptyStr == <<"", 0>>
Truthy(id) == id # None /\ id # EmptyStr

\* str(post['id']).startswith('mock_')
StartsWithMock(id) == id[1] = "mock_"

\* an item of the provider's dataset: a post record (with 'id', 'account',
\* 'content', 'created_at'), or an aggregate record carrying 'profile' and
\* 'posts' and no 'id'
PostItem(id) == [kind |-> "post", id |-> id, posts |-> <<>>]
AggItem(ps) == [kind |-> "agg", id |-> None, posts |-> ps]

\* post.get('content', ''): the text of a post is determined by the post
Content(id) == <<"text", id[2]>>

Min(a, b) == IF a < b THEN a ELSE b

\* reversed(seq)
Reverse(s) == [k \in 1..Len(s) |-> s[Len(s) + 1 - k]]

\* the k newest posts of an account that has published n posts, newest first
Window(n, k) == [i \in 1..k |-> PostItem(RealId(n - i + 1))]

\* The lists of post records the provider may hand back for an account with
\* n published posts: newest first, at most maxPosts of them, cut anywhere
\* (the provider is not known to stop at startPostId); or a placeholder
\* record, alone or ahead of the posts.
PostLists(n) ==
    LET full == Window(n, Min(n, maxPosts))
    IN  { Window(n, k) : k \in 0..Min(n, maxPosts) } \cup
        { <<PostItem(MockId)>>, <<PostItem(MockId)>> \o full }

\* The dataset items of one response: the post records themselves, or one
\* aggregate record holding the account's posts, or none of them.
ProviderItems(n) ==
    PostLists(n) \cup
        { <<AggItem(Window(n, Min(n, maxPosts)))>>, <<AggItem(<<>>)>> }

\* ------------------------------------------------------ Post Source Client
\* what get_user_data hands to its caller: None, or a dict that may or may
\* not carry a 'posts' key
NoData == [kind |-> "none", hasPosts |-> FALSE, posts |-> <<>>]

\* {"profile": {...}, "posts": items}
Normalized(items) == [kind |-> "dict", hasPosts |-> TRUE, posts |-> items]

\* a dataset item returned as it is
AsDict(item) ==
    [kind |-> "dict", hasPosts |-> item.kind = "agg", posts |-> item.posts]

\* what the primary transport's HTTP exchange may do for an account with n
\* published posts: raise, answer with an error status, or answer 200 / 201
\* with dataset items
DirectOutcomes(n) ==
    { [raised |-> TRUE, status |-> 0, items |-> <<>>],
      [raised |-> FALSE, status |-> 500, items |-> <<>>] } \cup
    { [raised |-> FALSE, status |-> st, items |-> items] :
          st \in {200, 201}, items \in ProviderItems(n) }

\* what the secondary transport may do: raise, fail to start the actor run,
\* get an error status from the dataset GET, or get the dataset items
FallbackOutcomes(n) ==
    { [raised |-> TRUE, run |-> FALSE, status |-> 0, items |-> <<>>],
      [raised |-> FALSE, run |-> FALSE, status |-> 0, items |-> <<>>],
      [raised |-> FALSE, run |-> TRUE, status |-> 500, items |-> <<>>] } \cup
    { [raised |-> FALSE, run |-> TRUE, status |-> 200, items |-> items] :
          items \in ProviderItems(n) }

\* response.status accepted by the primary transport
DirectStatusOk(v, status) ==
    IF v = "main" THEN status \in {200, 201} ELSE status = 200

\* a primary transport that hands an empty item list on as a dict
DirectReturn_emptyDict(v, status, items) ==
    IF ~DirectStatusOk(v, status) THEN NoData
    ELSE IF items = <<>> THEN Normalized(<<>>)
    ELSE IF v = "main" /\ items[1].kind = "post" THEN Normalized(items)
    ELSE AsDict(items[1])

\* value returned by the try body of get_user_data_direct
DirectReturn(v, status, items) ==
    IF ~DirectStatusOk(v, status) THEN NoData
    ELSE IF items = <<>> THEN NoData
    ELSE IF v = "main" /\ items[1].kind = "post" THEN Normalized(items)
    ELSE AsDict(items[1])

\* how the secondary transport ended
FallbackEnd(out) ==
    IF out.raised THEN "raised"
    ELSE IF ~out.run THEN "norun"
    ELSE IF out.status # 200 THEN "status"
    ELSE "ok"

\* an exception of the secondary transport left to its caller
Uncaught == [kind |-> "exception", hasPosts |-> FALSE, posts |-> <<>>]

\* get_user_data_fallback without its except clause
FallbackReturn_uncaught(out) ==
    IF out.raised THEN Uncaught
    ELSE IF ~out.run THEN NoData
    ELSE IF out.status # 200 THEN NoData
    ELSE IF out.items # <<>> THEN Normalized(out.items)
    ELSE NoData

\* value returned by get_user_data_fallback
FallbackReturn(out) ==
    IF out.raised THEN NoData
    ELSE IF ~out.run THEN NoData
    ELSE IF out.status # 200 THEN NoData
    ELSE IF out.items # <<>> THEN Normalized(out.items)
    ELSE NoData

\* get_user_data returning whatever the primary transport returned
NeedsFallback_never(result) == FALSE

\* `if result is None:` of get_user_data
NeedsFallback(result) == result.kind = "none"

\* One get_user_data call in flight.  pc is the transport the call is about
\* to enter: "direct", "fallback_in_direct" (the except branch of
\* get_user_data_direct), "fallback" (called by get_user_data), or "done".
\* calls lists the transports entered so far, primary and secondary are how
\* the primary transport and the last run of the secondary one ended.
NewCall(username, last_post_id) ==
    [pc |-> "direct", username |-> username,
     useLastPostId |-> Truthy(last_post_id),
     startPostId |-> IF Truthy(last_post_id) THEN last_post_id ELSE EmptyStr,
     calls |-> <<>>, primary |-> "none", secondary |-> "none",
     result |-> NoData]

IdleCall ==
    [pc |-> "done", username |-> <<>>, useLastPostId |-> FALSE,
     startPostId |-> None, calls |-> <<>>, primary |-> "none",
     secondary |-> "none", result |-> NoData]

\* get_user_data_direct, then the test of get_user_data on its result
get_user_data_direct(v, call, out) ==
    IF out.raised
    THEN [call EXCEPT !.pc = "fallback_in_direct",
                      !.calls = Append(@, "direct"),
                      !.primary = "raised"]
    ELSE LET r == DirectReturn(v, out.status, out.items)
         IN  [call EXCEPT !.pc = IF NeedsFallback(r) THEN "fallback" ELSE "done",
                          !.calls = Append(@, "direct"),
                          !.primary = IF DirectStatusOk(v, out.status)
                                      THEN "ok" ELSE "status",
                          !.result = r]

\* get_user_data_fallback, entered from the except branch of the primary
\* transport or from get_user_data
get_user_data_fallback(call, out) ==
    LET r == FallbackReturn(out)
    IN  [call EXCEPT !.pc = IF call.pc = "fallback_in_direct" /\ NeedsFallback(r)
                            THEN "fallback" ELSE "done",
                     !.calls = Append(@, "fallback"),
                     !.secondary = FallbackEnd(out),
                     !.result = r]

\* get_user_data: the primary transport, then the secondary one while the
\* result is None.  d, f1 and f2 are what the primary transport and the
\* first and second run of the secondary transport do when they are entered.
get_user_data(v, username, last_post_id, d, f1, f2) ==
    LET c0 == NewCall(username, last_post_id)
        c1 == get_user_data_direct(v, c0, d)
        c2 == IF c1.pc = "done" THEN c1 ELSE get_user_data_fallback(c1, f1)
    IN  IF c2.pc = "done" THEN c2 ELSE get_user_data_fallback(c2, f2)

\* every way a get_user_data call may go for an account with n published
\* posts (the same set as { get_user_data(v, u, l, d, f1, f2) : d, f1, f2 },
\* built transport by transport)
Calls(v, username, last_post_id, n) ==
    LET s1 == { get_user_data_direct(v, NewCall(username, last_post_id), d) :
                    d \in DirectOutcomes(n) }
        p1 == { c \in s1 : c.pc # "done" }
        s2 == { get_user_data_fallback(c, f) :
                    c \in p1, f \in FallbackOutcomes(n) }
        p2 == { c \in s2 : c.pc # "done" }
        s3 == { get_user_data_fallback(c, f) :
                    c \in p2, f \in FallbackOutcomes(n) }
    IN  (s1 \ p1) \cup (s2 \ p2) \cup s3

\* What get_user_data may return for an account with n published posts:
\* what the primary transport returns unless it is None, or, the primary
\* transport having raised or returned None, what a run of the secondary
\* transport returns (a first run that returns None inside the except
\* branch is followed by a second).  The same set as
\* { c.result : c \in Calls(v, username, last_post_id, n) }, which
\* ResultsAreCalls compares in SpecClient.
Results(v, n) ==
    LET direct == { DirectReturn(v, d.status, d.items) :
                        d \in { o \in DirectOutcomes(n) : ~o.raised } }
        fallback == { FallbackReturn(f) : f \in FallbackOutcomes(n) }
    IN  { r \in direct : ~NeedsFallback(r) } \cup fallback

\* ------------------------------------------------------------------ state
VARIABLES
    variant,    \* which file is running: "main" or "main_new"
    dbReady,    \* init_db has created the tracked_users table
    loop,       \* the tasks.loop object of check_for_new_posts
    store,      \* the rows of tracked_users
    nextRowId,  \* AUTOINCREMENT counter of tracked_users.id
    posted,     \* upstream: number of posts each account has published
    cyc,        \* the run of check_for_new_posts in progress
    cmd,        \* the track commands in flight
    clientCall, \* a get_user_data call followed transport by transport
    scope,      \* of this run of the model: what is kept of its past, and
                \* the rows inserted, runs started and posts published at most
    validated,  \* history: test_token_validity has returned True
    reply,      \* history: the last message a command sent to its channel
    relayed,    \* history: how often <<row id, post id>> reached the channel
    written     \* history: how often the cycle stored <<row id, post id>>

vars == <<variant, dbReady, loop, store, nextRowId, posted, cyc, cmd,
          clientCall, scope, validated, reply, relayed, written>>

\* a row that counts the post seen by the track command
Row_counted(id, username, last_post_id) ==
    [id |-> id, username |-> username, last_post_id |-> last_post_id,
     last_post_content |-> Content(last_post_id), notification_count |-> 1]

\* a row of tracked_users as the INSERT of add_user creates it
Row(id, username, last_post_id) ==
    [id |-> id, username |-> username, last_post_id |-> last_post_id,
     last_post_content |-> Content(last_post_id), notification_count |-> 0]

\* rows selected by WHERE username = ?
RowsNamed(rows, username) == { r \in rows : r.username = username }

\* rows selected by WHERE LOWER(username) = LOWER(?)
RowsNamedNoCase(rows, username) ==
    { r \in rows : Lower(r.username) = Lower(username) }

\* SELECT username, last_post_id FROM tracked_users: rows in rowid order
\* (rowid is kept beside each pair to tell a row from its successor of the
\* same name; the code does not read it)
RECURSIVE SelectAll(_)
SelectAll(rows) ==
    IF rows = {} THEN <<>>
    ELSE LET r == CHOOSE x \in rows : \A y \in rows : x.id <= y.id
         IN  <<[username |-> r.username, last_post_id |-> r.last_post_id,
                rowid |-> r.id]>> \o SelectAll(rows \ {r})

\* the loop between two runs of check_for_new_posts (failed counts the
\* accounts of the run in progress that ended in `except Exception`)
Sleeping ==
    [pc |-> "sleep", users |-> <<>>, i |-> 0, failed |-> 0,
     posts |-> <<>>, new_posts |-> <<>>, j |-> 0, emitted |-> <<>>]

\* a command slot at rest
IdleCmd == [pc |-> "idle", username |-> <<>>]

\* The histories count events up to Often: once, or more than once.
Often == 2
NoHistory == [e \in {} |-> 0]
Count(h, e) == IF e \in DOMAIN h THEN h[e] ELSE 0
Record(h, e) ==
    IF scope.recording
    THEN [x \in DOMAIN h \cup {e} |->
             IF x = e THEN Min(Count(h, e) + 1, Often) ELSE h[x]]
    ELSE h

\* what a specification covers
Scope(recording, replies, tracks, cycles, posts) ==
    [recording |-> recording, replies |-> replies, tracks |-> tracks,
     cycles |-> cycles, posts |-> posts]

\* ctx.send / status_message.edit of a command about the username arg
NoReply == [arg |-> <<>>, text |-> "none"]
Say(arg, text) == IF scope.replies THEN [arg |-> arg, text |-> text] ELSE reply

\* the state after construction, running one of the files vs on a
\* tracked_users.db that holds rows
StartOn(vs, sc, rows) ==
    /\ variant \in vs
    /\ dbReady = FALSE
    /\ loop = [task |-> FALSE, active |-> 0, started |-> 0]
    /\ store = rows
    /\ nextRowId = 1
    /\ posted = [a \in Accounts |-> 1]
    /\ cyc = Sleeping
    /\ cmd = [p \in Procs |-> IdleCmd]
    /\ clientCall = IdleCall
    /\ scope = sc
    /\ validated = FALSE
    /\ reply = NoReply
    /\ relayed = NoHistory
    /\ written = NoHistory

\* the same on a table that is created empty
Start(vs, sc) == StartOn(vs, sc, {})

Init == Start(Variants, Scope(FALSE, FALSE, MaxTracks, MaxCycles, MaxPosts))

\* ----------------------------------------------------------------- upstream
RECURSIVE SumPosted(_, _)
SumPosted(f, S) ==
    IF S = {} THEN 0
    ELSE LET a == CHOOSE x \in S : TRUE IN f[a] + SumPosted(f, S \ {a})

\* the number of posts the provider finds for a username
Published(username) == IF username \in Accounts THEN posted[username] ELSE 0

\* an account publishes a post
NewPost(a) ==
    /\ SumPosted(posted, Accounts) < scope.posts
    /\ posted' = [posted EXCEPT ![a] = @ + 1]
    /\ UNCHANGED <<variant, dbReady, loop, store, nextRowId, cyc, cmd,
                   clientCall, scope, validated, reply, relayed, written>>

\* ---------------------------------------------------------------- startup
\* Loop.is_running()
is_running(l) == l.task

\* Loop.start(): launches the task; raises RuntimeError when one is running
LoopStart(l) == IF l.task THEN l ELSE [l EXCEPT !.task = TRUE]

\* on_ready starting the loop without looking at token_valid
MayStart_unvalidated(token_valid, l) == ~is_running(l)

\* the else branch of `if not token_valid:` and its is_running test
MayStart(token_valid, l) == token_valid /\ ~is_running(l)

\* on_ready (first connect and every reconnect): init_db,
\* test_token_validity, then start the loop
on_ready(token_valid) ==
    /\ dbReady' = TRUE
    /\ validated' = (validated \/ token_valid)
    /\ loop' = IF MayStart(token_valid, loop) THEN LoopStart(loop) ELSE loop
    /\ UNCHANGED <<variant, store, nextRowId, posted, cyc, cmd, clientCall,
                   scope, reply, relayed, written>>

\* ------------------------------------------------------------- poll cycle
\* post['id'] raises KeyError on a record without 'id'
FilterRaises(posts) == \E k \in 1..Len(posts) : posts[k].kind # "post"

\* a batch made of the whole feed
FilterNew_all(v, posts, last_post_id) == posts

\* a filter for which nothing is new while the row has no last_post_id
FilterNew_needsWatermark(v, posts, last_post_id) ==
    SelectSeq(posts, LAMBDA post :
        /\ last_post_id # None
        /\ post.id # last_post_id
        /\ (v = "main" => ~StartsWithMock(post.id)))

\* new_posts = [post for post in data['posts'] if ...]
FilterNew(v, posts, last_post_id) ==
    SelectSeq(posts, LAMBDA post :
        /\ post.id # last_post_id
        /\ (v = "main" => ~StartsWithMock(post.id)))

\* the batch sent in feed order
EmitOrder_feed(new_posts) == new_posts

\* for post in reversed(new_posts)
EmitOrder(new_posts) == Reverse(new_posts)

\* latest_post = new_posts[-1]
LatestPost(new_posts) == new_posts[Len(new_posts)]

\* a timer that fires whether or not the previous run has returned
LoopMayFire_always(c) == TRUE

\* @tasks.loop: the next run of the body waits for the previous one to return
LoopMayFire(c) == c.pc = "sleep"

\* what the rendering and the sends of one post may do: delivered; raised
\* before anything was delivered (strptime, the send of the embed);
\* delivered, and a later send for the additional media raised
EmitOutcomes == {"sent", "raised", "extra_raised"}
Delivered(outcome) == outcome \in {"sent", "extra_raised"}
Raised(outcome) == outcome # "sent"

\* the username the cycle passes to get_user_data
FetchName(v, username) == IF v = "main" THEN Lower(username) ELSE username

\* the cycle's state at the head of `for username, last_post_id in
\* tracked_users` after account i: the call for the next account, or the end
\* of the run
NextAccount(c) ==
    IF c.i < Len(c.users)
    THEN [c EXCEPT !.pc = "call", !.i = c.i + 1,
                   !.posts = <<>>, !.new_posts = <<>>, !.j = 0,
                   !.emitted = <<>>]
    ELSE Sleeping

\* the account's `except Exception as e:` logging "Post Check Error"
Failed(c) == [c EXCEPT !.failed = @ + 1]

\* an exception of one account that leaves the for loop over the accounts
AfterException_abort(c) == Sleeping

\* the except clause sits inside the for loop over the accounts: the loop
\* goes on with the next account
AfterException(c) == NextAccount(Failed(c))

\* the loop object once the cycle has moved to c
LoopAfter(l, c) == IF c.pc = "sleep" THEN [l EXCEPT !.active = @ - 1] ELSE l

\* tasks.Loop when the body raises an exception that is not one of its
\* reconnect exceptions (OSError, aiohttp.ClientError, asyncio.TimeoutError,
\* the gateway's): the error handler logs it and the task ends
LoopFailed(l) == [l EXCEPT !.task = FALSE]

\* a run that goes on to the accounts without a channel
EntersLoop_anyChannel(snapshot, channel) == snapshot

\* the run reaches its for loop: the SELECT returned, and
\* `if not channel: return` did not return
EntersLoop(snapshot, channel) == snapshot /\ channel

\* check_for_new_posts up to its first transport call: the snapshot of the
\* table, which aiosqlite may refuse (snapshot = FALSE) outside any try, and
\* the channel lookup
CycleStart(snapshot, channel) ==
    /\ is_running(loop)
    /\ LoopMayFire(cyc)
    /\ loop.started < scope.cycles
    /\ LET c0 == [Sleeping EXCEPT !.users = SelectAll(store)]
           c1 == IF EntersLoop(snapshot, channel)
                 THEN NextAccount(c0) ELSE Sleeping
           l1 == [loop EXCEPT !.active = @ + 1, !.started = @ + 1]
       IN  /\ cyc' = c1
           /\ loop' = IF snapshot THEN LoopAfter(l1, c1)
                      ELSE LoopFailed(LoopAfter(l1, c1))
    /\ UNCHANGED <<variant, dbReady, store, nextRowId, posted, cmd, clientCall,
                   scope, validated, reply, relayed, written>>

\* the cycle's code from the return of get_user_data to the first send
CycleOnData(c, data) ==
    LET last_post_id == c.users[c.i].last_post_id
    IN  IF data.kind = "none" \/ ~data.hasPosts \/ data.posts = <<>>
        THEN NextAccount(c)
        ELSE IF FilterRaises(data.posts) THEN AfterException(c)
        ELSE LET new_posts == FilterNew(variant, data.posts, last_post_id)
             IN  IF new_posts = <<>> THEN NextAccount(c)
                 ELSE [c EXCEPT !.pc = "emit", !.posts = data.posts,
                                !.new_posts = new_posts, !.j = 1]

\* `data = await scraper.get_user_data(...)` for account i of the snapshot,
\* and the code up to the first send
CycleFetch(data) ==
    /\ cyc.pc = "call"
    /\ cyc' = CycleOnData(cyc, data)
    /\ loop' = LoopAfter(loop, cyc')
    /\ UNCHANGED <<variant, dbReady, store, nextRowId, posted, cmd, clientCall,
                   scope, validated, reply, relayed, written>>

\* a for loop over the batch left after its first post
MorePosts_none(c) == FALSE

\* `for post in reversed(new_posts)` has a post left after the one at j
MorePosts(c) == c.j < Len(c.new_posts)

\* one iteration of `for post in reversed(new_posts)`
CycleEmit(outcome) ==
    /\ cyc.pc = "emit"
    /\ LET post == EmitOrder(cyc.new_posts)[cyc.j]
           rowid == cyc.users[cyc.i].rowid
           c1 == [cyc EXCEPT !.emitted = Append(@, post.id)]
       IN  /\ cyc' = IF Raised(outcome) /\ variant = "main_new"
                     THEN AfterException(c1)
                     ELSE IF MorePosts(cyc)
                     THEN [c1 EXCEPT !.j = @ + 1]
                     ELSE [c1 EXCEPT !.pc = "write"]
           /\ relayed' = IF Delivered(outcome)
                         THEN Record(relayed, <<rowid, post.id>>) ELSE relayed
    /\ loop' = LoopAfter(loop, cyc')
    /\ UNCHANGED <<variant, dbReady, store, nextRowId, posted, cmd, clientCall,
                   scope, validated, reply, written>>

\* an UPDATE without its WHERE clause
RecordObservedPost_all(rows, username, post) ==
    { [r EXCEPT !.last_post_id = post.id,
                !.last_post_content = Content(post.id),
                !.notification_count = @ + 1] : r \in rows }

\* UPDATE tracked_users SET ... WHERE username = ?
RecordObservedPost(rows, username, post) ==
    { IF r.username = username
      THEN [r EXCEPT !.last_post_id = post.id,
                     !.last_post_content = Content(post.id),
                     !.notification_count = @ + 1]
      ELSE r : r \in rows }

\* the store write that ends the batch of one account
CycleWrite ==
    /\ cyc.pc = "write"
    /\ LET username == cyc.users[cyc.i].username
           latest_post == LatestPost(cyc.new_posts)
           rows == RowsNamed(store, username)
       IN  /\ store' = RecordObservedPost(store, username, latest_post)
           /\ written' = IF rows = {} THEN written
                         ELSE Record(written,
                                     <<(CHOOSE r \in rows : TRUE).id,
                                       latest_post.id>>)
    /\ cyc' = NextAccount(cyc)
    /\ loop' = LoopAfter(loop, cyc')
    /\ UNCHANGED <<variant, dbReady, nextRowId, posted, cmd, clientCall,
                   scope, validated, reply,
                   relayed>>

\* ----------------------------------------------------------- command surface
\* track commands whose lookup is in flight
InFlight == Cardinality({ p \in Procs : cmd[p].pc # "idle" })

\* the slot a new command coroutine takes
FreeSlot(p) == cmd[p].pc = "idle" /\ \A q \in Procs : q < p => cmd[q].pc # "idle"

\* a username stripped and kept in the case it was typed in
Normalize_strip(raw) == Strip(raw)

\* username = username.strip().lower()
Normalize(raw) == Lower(Strip(raw))

\* what add_user answers first to the argument raw with the table holding
\* rows: normalisation, validation, existence check
TrackCheck(rows, raw) ==
    LET username == Normalize(raw)
    IN  IF ~ValidUsername(username) THEN "invalid"
        ELSE IF RowsNamedNoCase(rows, username) # {} THEN "already"
        ELSE "lookup"

\* add_user up to the lookup
add_user(p, raw) ==
    /\ FreeSlot(p)
    /\ dbReady
    /\ LET username == Normalize(raw)
           check == TrackCheck(store, raw)
       IN  IF check # "lookup"
           THEN reply' = Say(username, check) /\ cmd' = cmd
           ELSE /\ nextRowId + InFlight <= scope.tracks
                /\ reply' = Say(username, "lookup")
                /\ cmd' = [cmd EXCEPT ![p] =
                               [pc |-> "call", username |-> username]]
    /\ UNCHANGED <<variant, dbReady, loop, store, nextRowId, posted, cyc,
                   clientCall, scope, validated, relayed, written>>

\* an INSERT that the table takes whatever rows it holds
UniqueRefuses_never(rows, username) == FALSE

\* username TEXT UNIQUE: the INSERT raises IntegrityError
UniqueRefuses(rows, username) == RowsNamed(rows, username) # {}

\* a command that takes every dict for an account with posts
LookupCheck_noneOnly(data) == IF data.kind = "none" THEN "notfound" ELSE "ok"

\* `if not data:` and `if not data.get('posts') or len(data['posts']) == 0:`
LookupCheck(data) ==
    IF data.kind = "none" THEN "notfound"
    ELSE IF ~data.hasPosts \/ data.posts = <<>> THEN "noposts"
    ELSE "ok"

\* add_user from `data = await scraper.get_user_data(username)` on: the
\* lookup, the checks on the data and the INSERT.  data['posts'][0] and
\* latest_post['id'] may raise, and the UNIQUE constraint on username may
\* refuse the INSERT: the command's except clause answers with the error.
TrackLookup(p, data) ==
    LET username == cmd[p].username
        check == LookupCheck(data)
    IN  /\ cmd[p].pc = "call"
        /\ cmd' = [cmd EXCEPT ![p] = IdleCmd]
        /\ IF check # "ok"
           THEN /\ reply' = Say(username, check)
                /\ UNCHANGED <<store, nextRowId>>
           ELSE IF \/ data.posts = <<>>
                   \/ data.posts[1].kind # "post"
                   \/ UniqueRefuses(store, username)
           THEN /\ reply' = Say(username, "error")
                /\ UNCHANGED <<store, nextRowId>>
           ELSE /\ store' = store \cup
                       {Row(nextRowId, username, data.posts[1].id)}
                /\ nextRowId' = nextRowId + 1
                /\ reply' = Say(username, "tracked")
        /\ UNCHANGED <<variant, dbReady, loop, posted, cyc, clientCall,
                       scope, validated, relayed, written>>

\* a DELETE without its WHERE clause
UntrackRows_all(v, rows, raw) == rows

\* rows the DELETE of remove_user selects
UntrackRows(v, rows, raw) ==
    IF v = "main" THEN RowsNamedNoCase(rows, raw) ELSE RowsNamed(rows, raw)

\* remove_user
remove_user(raw) ==
    /\ dbReady
    /\ LET gone == UntrackRows(variant, store, raw)
       IN  /\ store' = store \ gone
           /\ reply' = Say(raw, IF gone # {} THEN "untracked" ELSE "nottracked")
    /\ UNCHANGED <<variant, dbReady, loop, nextRowId, posted, cyc, cmd,
                   clientCall, scope, validated, relayed, written>>

\* ------------------------------------------ the Post Source Client alone
\* The client keeps no state of its own, so one call is followed here
\* transport by transport for any caller: any username, any watermark.
Watermarks == {None, MockId} \cup { RealId(n) : n \in 1..MaxPosts }

\* a caller enters get_user_data
ClientCall(username, last_post_id) ==
    /\ clientCall.pc = "done"
    /\ clientCall' = NewCall(username, last_post_id)
    /\ UNCHANGED <<variant, dbReady, loop, store, nextRowId, posted, cyc, cmd,
                   scope, validated, reply, relayed, written>>

\* the call enters the primary transport
ClientDirect(out) ==
    /\ clientCall.pc = "direct"
    /\ clientCall' = get_user_data_direct(variant, clientCall, out)
    /\ UNCHANGED <<variant, dbReady, loop, store, nextRowId, posted, cyc, cmd,
                   scope, validated, reply, relayed, written>>

\* the call enters the secondary transport
ClientFallback(out) ==
    /\ clientCall.pc \in {"fallback_in_direct", "fallback"}
    /\ clientCall' = get_user_data_fallback(clientCall, out)
    /\ UNCHANGED <<variant, dbReady, loop, store, nextRowId, posted, cyc, cmd,
                   scope, validated, reply, relayed, written>>

NextClient ==
    \/ \E a \in Accounts : NewPost(a)
    \/ \E a \in Accounts, w \in Watermarks : ClientCall(a, w)
    \/ \E out \in DirectOutcomes(Published(clientCall.username)) :
          ClientDirect(out)
    \/ \E out \in FallbackOutcomes(Published(clientCall.username)) :
          ClientFallback(out)

SpecClient == Init /\ [][NextClient]_vars

\* Results is what the calls followed transport by transport return
ResultsAreCalls ==
    \A v \in Variants, a \in Accounts, w \in Watermarks :
        Results(v, Published(a)) =
            { c.result : c \in Calls(v, a, w, Published(a)) }

\* ------------------------------------------------------------ specification
\* what get_user_data may return to the cycle for account i of its snapshot
CycleData ==
    IF cyc.pc = "call"
    THEN Results(variant,
                 Published(FetchName(variant, cyc.users[cyc.i].username)))
    ELSE {}

\* what get_user_data may return to a track command
TrackData(p) ==
    IF cmd[p].pc = "call"
    THEN Results(variant, Published(cmd[p].username))
    ELSE {}

Next ==
    \/ \E a \in Accounts : NewPost(a)
    \/ \E token_valid \in BOOLEAN : on_ready(token_valid)
    \/ \E snapshot, channel \in BOOLEAN : CycleStart(snapshot, channel)
    \/ \E data \in CycleData : CycleFetch(data)
    \/ \E outcome \in EmitOutcomes : CycleEmit(outcome)
    \/ CycleWrite
    \/ \E p \in Procs, raw \in RawNames : add_user(p, raw)
    \/ \E p \in Procs : \E data \in TrackData(p) : TrackLookup(p, data)
    \/ \E raw \in RawNames : remove_user(raw)

Spec == Init /\ [][Next]_vars

\* the same program with the histories kept, running src/main.py
InitRecorded ==
    Start({"main"}, Scope(TRUE, FALSE, MaxTracks, MaxCycles, MaxPosts))

SpecRecorded == InitRecorded /\ [][Next]_vars

\* the same program where a username may be tracked again
InitRetrack ==
    Start(Variants, Scope(FALSE, FALSE, MaxRetracks, MaxCycles, MaxPosts))

SpecRetrack == InitRetrack /\ [][Next]_vars

\* the same program with two rows in the table together, running
\* src/main.py
InitPair ==
    Start({"main"}, Scope(FALSE, FALSE, PairTracks, FewCycles, FewPosts))

SpecPair == InitPair /\ [][Next]_vars

\* and running src/main_new.py
InitPairNew ==
    Start({"main_new"}, Scope(FALSE, FALSE, PairTracks, FewCycles, FewPosts))

SpecPairNew == InitPairNew /\ [][Next]_vars

\* the same program with the replies of the commands kept, running
\* src/main.py
InitCommands ==
    Start({"main"}, Scope(FALSE, TRUE, MaxTracks, FewCycles, FewPosts))

SpecCommands == InitCommands /\ [][Next]_vars

\* and running src/main_new.py
InitCommandsNew ==
    Start({"main_new"}, Scope(FALSE, TRUE, MaxTracks, FewCycles, FewPosts))

SpecCommandsNew == InitCommandsNew /\ [][Next]_vars

\* the same program started on a tracked_users.db left by an earlier run,
\* with a row whose last_post_id is NULL (the column is a nullable TEXT)
InitNull ==
    StartOn(Variants, Scope(FALSE, FALSE, MaxTracks, FewCycles, FewPosts),
            {Row(0, <<"a", "1">>, None)})

SpecNull == InitNull /\ [][Next]_vars

\* the same program where every step of the cycle that is the program's own
\* is taken in the end: each send and the UPDATE.  The source sets no
\* timeout on a transport, so nothing makes get_user_data return.
SpecLive ==
    /\ Init
    /\ [][Next]_vars
    /\ WF_vars(\E outcome \in EmitOutcomes : CycleEmit(outcome))
    /\ WF_vars(CycleWrite)

\* ------------------------------------------------------------------ claims
\* the snapshot entry the cycle is working on
Current == cyc.users[cyc.i]

\* the cycle's UPDATE is the step that leaves pc = "write"
WriteStep == cyc.pc = "write" /\ cyc' # cyc

\* the step that ends the batch of an account: the UPDATE, or an exception
\* that escapes the for loop over the batch
BatchEnd == cyc.pc \in {"emit", "write"} /\ cyc'.pc \notin {"emit", "write"}

\* post a is strictly more recent than post b
Newer(a, b) == a[1] = "" /\ b[1] = "" /\ a[2] > b[2]

\* the position of a post in a feed (1 is the newest)
Pos(posts, id) == CHOOSE k \in 1..Len(posts) : posts[k].id = id

Ids(posts) == { posts[k].id : k \in 1..Len(posts) }
Range(seq) == { seq[k] : k \in 1..Len(seq) }

\* C1: the UPDATE that ends a non-empty batch stores the id of the newest new
\* post, the first element of the newest-first batch.
C1_StoresNewest ==
    [][WriteStep =>
          \A r \in RowsNamed(store', Current.username) :
              r.last_post_id = cyc.new_posts[1].id]_vars

\* C2: a cycle whose feed holds no post newer than the watermark (only the
\* watermark post and older ones) starts no batch, so it sends nothing and
\* writes nothing.
NoneNewer(posts, wm) ==
    /\ wm[1] = ""
    /\ \A k \in 1..Len(posts) : posts[k].id[1] = "" /\ posts[k].id[2] <= wm[2]
C2_Idempotent ==
    [][cyc.pc = "call" /\ cyc'.pc = "emit" =>
          ~NoneNewer(cyc'.posts, cyc'.users[cyc'.i].last_post_id)]_vars

\* C3: the last_post_id of a row only ever changes to a post that is strictly
\* more recent than the one it held.
C3_WatermarkForward ==
    [][\A r \in store, r2 \in store' :
          (r.id = r2.id /\ r2.last_post_id # r.last_post_id
              /\ r.last_post_id[1] = "" /\ r2.last_post_id[1] = "")
          => Newer(r2.last_post_id, r.last_post_id)]_vars

\* C4: a post whose id is the watermark the cycle read, or a 'mock_'
\* placeholder, is never offered to the channel and never stored by the
\* cycle's UPDATE.
C4_Filtered ==
    [][/\ cyc'.pc \in {"emit", "write"} =>
              \A id \in Range(cyc'.emitted) :
                  /\ id # cyc'.users[cyc'.i].last_post_id
                  /\ ~StartsWithMock(id)
       /\ WriteStep =>
              \A r \in RowsNamed(store', Current.username) :
                  /\ r.last_post_id # Current.last_post_id
                  /\ ~StartsWithMock(r.last_post_id)]_vars

\* C5: within a batch the posts go to the channel oldest first, the reverse
\* of the feed: each post sent is older than the ones sent after it, no new
\* post is skipped, nothing but new posts is sent, and when the batch is
\* through every new post has been offered.
C5_OldestFirst ==
    cyc.pc \in {"emit", "write"} =>
        LET sent == cyc.emitted
            feed == cyc.posts
            wm == Current.last_post_id
        IN  /\ \A a, b \in 1..Len(sent) :
                   a < b => Pos(feed, sent[a]) > Pos(feed, sent[b])
            /\ \A a \in 1..Len(sent) :
                   sent[a] \in Ids(feed) /\ sent[a] # wm
            /\ \A k \in 1..Len(feed), a \in 1..Len(sent) :
                   (feed[k].id \in Ids(cyc.new_posts) /\ Pos(feed, sent[a]) < k)
                   => feed[k].id \in Range(sent)
            /\ cyc.pc = "write" => Range(sent) = Ids(cyc.new_posts)
\* feed [p3, p2, p1] with watermark p1: p2 was sent, then p3
C5_Witness ==
    /\ cyc.pc = "write"
    /\ Current.last_post_id = RealId(1)
    /\ cyc.posts = Window(3, 3)
    /\ cyc.emitted = <<RealId(2), RealId(3)>>

\* C6: the batch of a tracked account ends with one UPDATE that adds exactly
\* one to notification_count, whatever the number of new posts.
C6_OneWrite ==
    [][BatchEnd =>
          \A r \in RowsNamed(store, Current.username) :
              \E r2 \in store' :
                  /\ r2.id = r.id
                  /\ r2.notification_count = r.notification_count + 1]_vars

\* C7: for a row, no post reaches the channel more than once and no post id is
\* stored by the cycle more than once.  (One run handles a row once and a
\* batch holds a post once, so a second time is a second cycle.)
C7_OncePerPost ==
    /\ \A e \in DOMAIN relayed : relayed[e] < Often
    /\ \A e \in DOMAIN written : written[e] < Often

\* C8: the UPDATE of the cycle only touches the row whose watermark the cycle
\* read: not a row inserted under the same username since.
C8_NoStaleWrite ==
    [][WriteStep =>
          \A r \in RowsNamed(store, Current.username) :
              r.id = Current.rowid]_vars

\* C9: at most one run of check_for_new_posts is in progress.
C9_NoOverlap == loop.active <= 1
\* a second run is in progress, the first one having returned; on_ready may
\* fire again here, and the timer may elapse
C9_Witness ==
    /\ loop.active = 1
    /\ loop.started = 2
    /\ cyc.pc = "emit"

\* C10: a get_user_data call whose primary transport ended with a non-success
\* status or raised has entered the secondary transport by the time it
\* returns.
C10_FallbackAttempted ==
    (clientCall.pc = "done" /\ clientCall.primary \in {"status", "raised"})
        => "fallback" \in Range(clientCall.calls)
\* the primary transport answered with an error status, the secondary one
\* was tried, and the call returned None
C10_Witness ==
    /\ clientCall.pc = "done"
    /\ clientCall.primary = "status"
    /\ clientCall.calls = <<"direct", "fallback">>
    /\ clientCall.result = NoData

\* C11: whatever way both transports fail (error status, exception, actor
\* run not started), get_user_data returns None as a value: no exception
\* reaches its caller.
C11_NeverRaises ==
    (/\ clientCall.pc = "done"
     /\ clientCall.primary \in {"status", "raised"}
     /\ clientCall.secondary \in {"status", "norun", "raised"})
        => clientCall.result = NoData
\* the primary transport raised, and so did both runs of the secondary one
C11_Witness ==
    /\ clientCall.pc = "done"
    /\ clientCall.primary = "raised"
    /\ clientCall.secondary = "raised"
    /\ clientCall.calls = <<"direct", "fallback", "fallback">>
    /\ clientCall.result = NoData

C13_BatchGoesOn ==
    [][(/\ cyc.pc = "emit"
        /\ cyc.j < Len(cyc.new_posts)
        /\ cyc' # cyc)
       => (/\ cyc'.pc = "emit"
           /\ cyc'.i = cyc.i
           /\ cyc'.new_posts = cyc.new_posts
           /\ cyc'.j = cyc.j + 1)]_vars

\* C14: the step that ends a non-empty batch performs the UPDATE a batch
\* without any failure performs: the row of the account takes the id of
\* latest_post, whether or not a post of the batch raised.
C14_WriteDespiteFailure ==
    [][BatchEnd
       => store' = RecordObservedPost(store, Current.username,
                                      LatestPost(cyc.new_posts))]_vars

\* C15: a run of check_for_new_posts, however it ends (the snapshot of the
\* table refused by the store included), leaves the poll loop scheduled, so
\* that a later run takes place at the next interval.
C15_LoopStaysScheduled ==
    [][loop'.started # loop.started => is_running(loop')]_vars

\* C16: a run of check_for_new_posts that has begun comes to its end, even
\* when an upstream call for one of its accounts never responds: the run
\* passes to the next account and finally returns.
C16_CycleTerminates == (cyc.pc # "sleep") ~> (cyc.pc = "sleep")

\* C17: the poll loop is scheduled, and a run of check_for_new_posts has
\* begun or is in progress, only after init_db has finished and
\* test_token_validity has returned success in some on_ready; while no
\* validation has succeeded the loop is not started.
C17_NoCycleBeforeValidation ==
    (is_running(loop) \/ loop.started > 0 \/ cyc.pc # "sleep")
        => (dbReady /\ validated)
\* a run in progress after a validation that succeeded
C17_Witness ==
    /\ dbReady
    /\ validated
    /\ is_running(loop)
    /\ cyc.pc = "call"

\* C18: the step of the cycle that takes the return of get_user_data writes
\* nothing to the store; None and a dict with an empty post list both send
\* the cycle straight to the next account; the cycle goes on to emit only
\* with a feed that holds a post other than the stored last_post_id, and
\* otherwise leaves the account with nothing emitted.
C18_NothingNewNoEffect ==
    [][(cyc.pc = "call" /\ cyc' # cyc)
       => (/\ store' = store
           /\ CycleOnData(cyc, NoData) = NextAccount(cyc)
           /\ CycleOnData(cyc, Normalized(<<>>)) = CycleOnData(cyc, NoData)
           /\ (cyc'.pc = "emit"
                 => \E k \in 1..Len(cyc'.posts) :
                        cyc'.posts[k].id # Current.last_post_id)
           /\ (cyc'.pc # "emit"
                 => cyc'.pc \in {"call", "sleep"} /\ cyc'.emitted = <<>>))]_vars
\* the first account of a snapshot of two was left without an exception and
\* its row is as the snapshot read it, never notified
C18_Witness ==
    /\ Len(cyc.users) = 2
    /\ cyc.i = 2
    /\ cyc.failed = 0
    /\ \E r \in store :
          /\ r.id = cyc.users[1].rowid
          /\ r.last_post_id = cyc.users[1].last_post_id
          /\ r.notification_count = 0

\* two usernames that differ at most in the case of their letters
SameName(a, b) ==
    /\ Len(a) = Len(b)
    /\ \A k \in 1..Len(a) :
          a[k] = b[k] \/ {a[k], b[k]} \in {{"a", "A"}, {"b", "B"}}

\* C19: while the table holds a row whose username equals the argument of a
\* track command up to letter case, the command answers "already tracking";
\* no lookup is begun for such a name, so no upstream call is made, and the
\* step that begins a lookup leaves the store as it was.
C19_AlreadyTracked ==
    /\ [](\A raw \in RawNames :
            (\E r \in store : SameName(r.username, raw))
                => TrackCheck(store, raw) = "already")
    /\ [][\A p \in Procs :
            (cmd[p].pc = "idle" /\ cmd'[p].pc = "call")
                => /\ store' = store
                   /\ ~\E r \in store :
                          SameName(r.username, cmd'[p].username)]_vars
\* a row is tracked and the same name typed in another case is refused, with a
\* budget of tracks that would still allow a lookup
C19_Witness ==
    /\ nextRowId + InFlight <= scope.tracks
    /\ \E r \in store, raw \in RawNames :
          /\ raw # r.username
          /\ SameName(r.username, raw)
          /\ TrackCheck(store, raw) = "already"

\* C20: the table never holds two rows whose usernames are equal up to
\* letter case, whatever the interleaving of the track commands around their
\* lookups.
C20_NoCaseDuplicates ==
    \A r1, r2 \in store : SameName(r1.username, r2.username) => r1 = r2
\* a track command is still at its lookup, begun when the table had no row of
\* its username, and another command has since inserted that username
C20_Witness ==
    \E p \in Procs :
        /\ cmd[p].pc = "call"
        /\ RowsNamed(store, cmd[p].username) # {}

\* a command has just answered with one of the texts
Answered(texts) == reply' # reply /\ reply'.text \in texts

\* C21: an untrack command whose argument names no row of the table, in any
\* letter case, answers "was not being tracked" and leaves every row of the
\* table as it was.
C21_NotTracked ==
    [][(/\ Answered({"untracked", "nottracked"})
        /\ ~\E r \in store : SameName(r.username, reply'.arg))
       => (reply'.text = "nottracked" /\ store' = store)]_vars
\* the table holds a row and an untrack of another name has been refused
C21_Witness ==
    /\ store # {}
    /\ reply.text = "nottracked"
    /\ ~\E r \in store : SameName(r.username, reply.arg)

\* a username with a character that is neither alphanumeric nor '_'
BadName(s) == \E k \in 1..Len(s) : ~IsAlnum(s[k]) /\ s[k] # "_"

\* C22: a track command whose argument holds a character other than
\* alphanumerics and underscore answers "invalid username format" whatever
\* the table holds, begins no lookup and inserts no row.
C22_InvalidRejected ==
    /\ [](\A raw \in RawNames :
            BadName(raw) => /\ TrackCheck(store, raw) = "invalid"
                            /\ TrackCheck({}, raw) = "invalid")
    /\ [][/\ (Answered({"invalid", "already", "lookup"}) /\ BadName(reply'.arg))
              => /\ reply'.text = "invalid"
                 /\ store' = store
                 /\ cmd' = cmd
          /\ \A p \in Procs :
                (cmd[p].pc = "idle" /\ cmd'[p].pc = "call")
                    => ~BadName(cmd'[p].username)]_vars
\* a track command has been refused for its format while a lookup could
\* still begin
C22_Witness ==
    /\ reply.text = "invalid"
    /\ BadName(reply.arg)
    /\ nextRowId + InFlight <= scope.tracks

\* get_user_data gave no data, or a result with no post list or an empty one
Unresolved(data) == data.kind = "none" \/ ~data.hasPosts \/ data.posts = <<>>

\* C23: a track command whose lookup comes back without a post answers "not
\* found" or "has no posts", and inserts no row.
C23_UnresolvedNotTracked ==
    [][\A p \in Procs : \A data \in IF cmd' # cmd THEN TrackData(p) ELSE {} :
          (Unresolved(data) /\ TrackLookup(p, data))
              => /\ store' = store
                 /\ nextRowId' = nextRowId
                 /\ reply'.text \in {"notfound", "noposts"}
                 /\ reply'.arg = cmd[p].username]_vars
\* a lookup has come back with a dict that carries no post; nothing is tracked
C23_Witness ==
    /\ reply.text = "noposts"
    /\ store = {}
    /\ nextRowId = 1
    /\ \A p \in Procs : cmd[p].pc = "idle"

\* C24: an untrack command whose argument equals the username of a row up to
\* letter case removes that row and answers "stopped tracking".
C24_UntrackAnyCase ==
    [][(/\ Answered({"untracked", "nottracked"})
        /\ \E r \in store : SameName(r.username, reply'.arg))
       => (/\ reply'.text = "untracked"
           /\ ~\E r \in store' : SameName(r.username, reply'.arg))]_vars

\* C25: across every step, a row that stays in the table keeps its
\* notification_count or has it raised by one, and a row that enters the
\* table has a notification_count of 0.
C25_CountByOne ==
    [][\A r2 \in store' :
          IF \E r \in store : r.id = r2.id
          THEN \E r \in store :
                  /\ r.id = r2.id
                  /\ r2.notification_count \in
                         {r.notification_count, r.notification_count + 1}
          ELSE r2.notification_count = 0]_vars
\* a row has been notified in two runs of the poll loop
C25_Witness == \E r \in store : r.notification_count = 2

\* C26: while the cycle is sending the batch of an account it writes nothing
\* to the table, and a step that changes the last_post_id of a row is the
\* cycle's UPDATE, taken after an emit attempt for every post of the batch.
C26_EmitBeforeWrite ==
    [][/\ (cyc.pc = "emit" /\ cyc' # cyc) => store' = store
       /\ (\E r \in store, r2 \in store' :
              r.id = r2.id /\ r2.last_post_id # r.last_post_id)
            => /\ cyc.pc = "write"
               /\ Len(cyc.emitted) = Len(cyc.new_posts)
               /\ Range(cyc.emitted) = Ids(cyc.new_posts)]_vars
\* the UPDATE is due for a batch of two posts, both handed to the channel
C26_Witness ==
    /\ cyc.pc = "write"
    /\ Len(cyc.new_posts) = 2
    /\ Len(cyc.emitted) = 2
    /\ RowsNamed(store, Current.username) # {}

\* the ids of a feed that are not placeholders
RealIds(posts) ==
    { posts[k].id : k \in { n \in 1..Len(posts) : posts[n].id[1] # "mock_" } }

\* C27: for a row whose last_post_id is NULL the cycle issues the fetch with
\* useLastPostId false and an empty startPostId, and every post of the feed
\* that is not a placeholder is in the batch it goes on to emit.
C27_NullWatermark ==
    [][\A data \in IF cyc' # cyc THEN CycleData ELSE {} :
          (/\ Current.last_post_id = None
           /\ CycleFetch(data)
           /\ ~Unresolved(data)
           /\ ~FilterRaises(data.posts))
          => LET call == NewCall(FetchName(variant, Current.username),
                                 Current.last_post_id)
             IN  /\ ~call.useLastPostId
                 /\ call.startPostId = EmptyStr
                 /\ RealIds(data.posts) # {}
                      => /\ cyc'.pc = "emit"
                         /\ RealIds(data.posts) \subseteq Ids(cyc'.new_posts)]_vars
\* the batch of a row without last_post_id holds the two posts of the feed
C27_Witness ==
    /\ cyc.pc = "emit"
    /\ Current.last_post_id = None
    /\ Len(cyc.posts) = 2
    /\ RealIds(cyc.posts) = Ids(cyc.new_posts)
    /\ Len(cyc.new_posts) = 2

\* C28: every username in the table is in lower case and is made of
\* alphanumerics and underscores only.
C28_StoredCaseFolded ==
    \A r \in store :
        /\ \A k \in 1..Len(r.username) : r.username[k] \notin {"A", "B"}
        /\ ~BadName(r.username)
\* the account typed "A1" or "a1" is tracked under its lower-case name
C28_Witness ==
    \E r \in store, raw \in RawNames :
        /\ raw # r.username
        /\ SameName(raw, r.username)
        /\ r.username = <<"a", "1">>

\* C29: whatever get_user_data returns other than None, from either
\* transport, carries a 'posts' sequence: a primary fetch that succeeded with
\* post records reaches the caller as a non-empty post list.
C29_SameShape ==
    /\ (clientCall.pc = "done" /\ clientCall.result.kind # "none")
          => clientCall.result.hasPosts
    /\ \A a \in Accounts : \A items \in PostLists(Published(a)) \ {<<>>} :
          LET r == DirectReturn(variant, 200, items)
          IN  r.kind = "dict" /\ r.hasPosts /\ r.posts = items

\* C30: get_user_data returns None only after the secondary transport was
\* entered and ended without data; a primary transport that succeeds with an
\* empty item list is followed by the secondary one, and a transport that
\* succeeds with a non-empty item list ends the call with a result that is
\* not None.
C30_NoneOnlyIfBothEmpty ==
    /\ [](( /\ clientCall.pc = "done"
            /\ clientCall.calls # <<>>
            /\ clientCall.result = NoData )
              => /\ "fallback" \in Range(clientCall.calls)
                 /\ clientCall.secondary # "none")
    /\ [][ \A out \in DirectOutcomes(Published(clientCall.username)) :
             ( /\ ClientDirect(out)
               /\ ~out.raised
               /\ DirectStatusOk(variant, out.status) )
                 => IF out.items = <<>>
                    THEN clientCall'.pc = "fallback"
                    ELSE /\ clientCall'.pc = "done"
                         /\ clientCall'.result # NoData ]_vars
    /\ [][ \A out \in FallbackOutcomes(Published(clientCall.username)) :
             ( /\ ClientFallback(out)
               /\ FallbackEnd(out) = "ok"
               /\ out.items # <<>> )
                 => /\ clientCall'.pc = "done"
                    /\ clientCall'.result # NoData ]_vars
\* the primary transport succeeded with an empty item list, the secondary
\* one was entered and returned the account's posts
C30_Witness ==
    /\ clientCall.pc = "done"
    /\ clientCall.primary = "ok"
    /\ clientCall.calls = <<"direct", "fallback">>
    /\ clientCall.secondary = "ok"
    /\ clientCall.result.kind = "dict"
    /\ clientCall.result.posts # <<>>

\* C31: a cycle that handles a row still as the track command wrote it
\* (never updated, watermark the newest post of the account) while the
\* account has published nothing since, and that gets a feed made of the
\* account's posts, starts no batch for it: no post that existed at track
\* time is sent, and the row is not written.
C31_NothingOldRelayed ==
    [][( /\ cyc.pc = "call"
         /\ Current.last_post_id[1] = ""
         /\ Current.last_post_id[2] = Published(Current.username)
         /\ \E r \in store : /\ r.id = Current.rowid
                             /\ r.last_post_id = Current.last_post_id
                             /\ r.notification_count = 0 )
          => ~( /\ cyc'.pc = "emit"
                /\ \A k \in 1..Len(cyc'.posts) : cyc'.posts[k].id[1] = "" )]_vars

\* C32: a post is delivered to the channel for an account only while the
\* table holds a row for it: nothing is sent for an account that was
\* untracked, also by a run that read its snapshot before the DELETE.
C32_NothingAfterUntrack ==
    [][\A outcome \in IF cyc' # cyc THEN EmitOutcomes ELSE {} :
          (CycleEmit(outcome) /\ Delivered(outcome))
              => RowsNamedNoCase(store, Current.username) # {}]_vars

\* C33: one get_user_data call enters the secondary transport at most once,
\* however the primary transport failed.
C33_FallbackOnce ==
    Cardinality({ k \in 1..Len(clientCall.calls) :
                      clientCall.calls[k] = "fallback" }) <= 1

\* the rows a step inserts, deletes or rewrites
Changed(rows, rows2) == (rows \ rows2) \cup (rows2 \ rows)

\* C34: a step touches the rows of one account only: the INSERT of a track
\* command those of the command's username, the UPDATE of the cycle those of
\* the snapshot entry it works on, the DELETE of an untrack command those of
\* one name; the rows of every other account keep all their columns.
C34_OwnRowOnly ==
    [][LET changed == Changed(store, store')
       IN  /\ \A r1, r2 \in changed : SameName(r1.username, r2.username)
           /\ WriteStep =>
                  \A r \in changed : r.username = Current.username
           /\ \A p \in Procs :
                  cmd'[p] # cmd[p] =>
                      \A r \in changed : r.username = cmd[p].username]_vars
\* the cycle has written the row of the first of two accounts and goes on
\* with the second, whose row is as the track command left it
C34_Witness ==
    /\ cyc.pc = "call"
    /\ cyc.i = 2
    /\ \E r1, r2 \in store :
          /\ r1.id = cyc.users[1].rowid
          /\ r1.notification_count = 1
          /\ r2.id = cyc.users[2].rowid
          /\ r2.notification_count = 0
          /\ r2.last_post_id = cyc.users[2].last_post_id

\* C35: a run of check_for_new_posts that finds no notification channel after
\* reading its snapshot returns at once: no get_user_data call is pending or
\* made, nothing is sent, and no row of the table changes.
C35_NoChannelNoEffect ==
    [][\A snapshot \in IF loop' # loop THEN {TRUE} ELSE {} :
          CycleStart(snapshot, FALSE) =>
              /\ cyc' = Sleeping
              /\ loop'.active = loop.active
              /\ store' = store
              /\ clientCall' = clientCall
              /\ relayed' = relayed
              /\ written' = written]_vars
\* a run has started and returned while the tracked account had a post the
\* table does not know: the row is as the track command wrote it and the
\* loop stays scheduled
C35_Witness ==
    /\ cyc = Sleeping
    /\ loop.task
    /\ loop.started = 1
    /\ loop.active = 0
    /\ \E r \in store :
          /\ r.notification_count = 0
          /\ r.last_post_id = RealId(1)
          /\ Published(r.username) = 2

====
